---- MODULE Spec2Model ----
(***************************************************************************)
(* Job-tracker extraction pipeline (backend/nodes.py, backend/pipeline.py, *)
(* backend/database.py) as a state machine.                                *)
(*                                                                         *)
(* A Python str is modelled by its run-length encoding: the sequence of    *)
(* its maximal runs [c |-> character, n |-> length].  The encoding is a    *)
(* bijection between strings and canonical run sequences, so two strings   *)
(* are equal exactly when their encodings are, and a text of 8000          *)
(* characters is a short sequence.  A character is a one-character TLA+    *)
(* string; "NBSP" stands for U+00A0.                                       *)
(*                                                                         *)
(* Python values are records, so that any two of them can be compared:     *)
(* None is [none |-> TRUE], a str is [str |-> runs], an int is             *)
(* [int |-> n], a fixed message is [lit |-> text], and an object is the    *)
(* record of its fields.                                                   *)
(***************************************************************************)
EXTENDS Integers, Sequences, FiniteSets, TLC

VARIABLES
    pc,            \* node of the compiled graph about to run, "idle", "END" or "raised"
    state,         \* the GraphState dict of the invocation in flight
    args,          \* arguments of the current run_extraction call
    env,           \* collaborator responses observed by the current invocation
    trace,         \* nodes executed so far by the current invocation, in order
    applications,  \* rows of the applications table
    session,       \* what the calling page keeps between runs
    runs,          \* number of run_extraction calls started
    unit           \* a single node function applied to a drawn input

vars == <<pc, state, args, env, trace, applications, session, runs, unit>>

None == [none |-> TRUE]
PyStr(rs) == [str |-> rs]
PyInt(n) == [int |-> n]
PyLit(text) == [lit |-> text]

(***************************************************************************)
(* Python str                                                              *)
(***************************************************************************)

Run(c, n) == [c |-> c, n |-> n]

\* The canonical encoding: no empty run, adjacent runs of different characters.
RECURSIVE Canon(_)
Canon(s) ==
    IF s = <<>> THEN <<>>
    ELSE LET h == Head(s)
             t == Canon(Tail(s))
         IN  IF h.n = 0 THEN t
             ELSE IF t # <<>> /\ Head(t).c = h.c
                  THEN <<Run(h.c, h.n + Head(t).n)>> \o Tail(t)
                  ELSE <<h>> \o t

\* A string literal given character by character.
Lit(chars) == Canon([i \in DOMAIN chars |-> Run(chars[i], 1)])

Empty == <<>>

\* a + b
Concat(a, b) == Canon(a \o b)

\* len(s)
RECURSIVE StrLen(_)
StrLen(s) == IF s = <<>> THEN 0 ELSE Head(s).n + StrLen(Tail(s))

\* s[:k]
RECURSIVE Take(_, _)
Take(s, k) ==
    IF s = <<>> \/ k <= 0 THEN <<>>
    ELSE IF Head(s).n >= k THEN <<Run(Head(s).c, k)>>
    ELSE <<Head(s)>> \o Take(Tail(s), k - Head(s).n)

\* s[k:]
RECURSIVE Drop(_, _)
Drop(s, k) ==
    IF s = <<>> \/ k <= 0 THEN s
    ELSE IF Head(s).n > k THEN <<Run(Head(s).c, Head(s).n - k)>> \o Tail(s)
    ELSE Drop(Tail(s), k - Head(s).n)

\* s[i] for a 1-based position i <= len(s)
RECURSIVE CharAt(_, _)
CharAt(s, i) == IF i <= Head(s).n THEN Head(s).c ELSE CharAt(Tail(s), i - Head(s).n)

\* Characters str.strip() and str.isspace() treat as whitespace.
Whitespace == {" ", "\t", "\n", "NBSP"}

\* str.lower() on one character, for the letters the inputs use.
Upper == {"A", "U", "R", "L", "T", "E", "X", "S", "P"}

LowerChar(c) ==
    CASE c = "A" -> "a" [] c = "U" -> "u" [] c = "R" -> "r" [] c = "L" -> "l"
      [] c = "T" -> "t" [] c = "E" -> "e" [] c = "X" -> "x" [] c = "S" -> "s"
      [] c = "P" -> "p" [] OTHER -> c

\* s.lower()
Lower(s) == Canon([i \in DOMAIN s |-> Run(LowerChar(s[i].c), s[i].n)])

RECURSIVE LStrip(_)
LStrip(s) == IF s # <<>> /\ Head(s).c \in Whitespace THEN LStrip(Tail(s)) ELSE s

RECURSIVE RStrip(_)
RStrip(s) ==
    IF s # <<>> /\ s[Len(s)].c \in Whitespace THEN RStrip(SubSeq(s, 1, Len(s) - 1)) ELSE s

\* s.strip()
Strip(s) == RStrip(LStrip(s))

\* Python truthiness of an Optional[str]: None and "" are falsy.
Truthy(v) == v # None /\ v # PyStr(Empty)

\* unicodedata.normalize("NFKC", s) on one character: the no-break space is
\* compatibility-equivalent to the space; the other characters used are fixed points.
NFKCChar(c) == IF c = "NBSP" THEN " " ELSE c

NFKC(s) == Canon([i \in DOMAIN s |-> Run(NFKCChar(s[i].c), s[i].n)])

(***************************************************************************)
(* clean_text (nodes.py:162-197)                                           *)
(***************************************************************************)

MAX_CHARS == 8000

\* "\n\n[Text truncated...]"
TRUNCATION_MARKER ==
    Lit(<<"\n", "\n", "[", "T", "e", "x", "t", " ", "t", "r", "u", "n", "c", "a", "t",
          "e", "d", ".", ".", ".", "]">>)

\* The literals of the three noise patterns, lower-cased (re.IGNORECASE).
NoiseShare == Lit(<<"s", "h", "a", "r", "e", " ", "t", "h", "i", "s", " ", "j", "o", "b">>)
NoiseApply == Lit(<<"a", "p", "p", "l", "y", " ", "n", "o", "w">>)
NoiseSimilar == Lit(<<"s", "i", "m", "i", "l", "a", "r", " ", "j", "o", "b", "s">>)

\* re.sub(r'\n{3,}', '\n\n', text): a maximal run of 3 or more newlines becomes 2.
CollapseNewlines(s) ==
    [i \in DOMAIN s |-> IF s[i].c = "\n" /\ s[i].n >= 3 THEN Run("\n", 2) ELSE s[i]]

HSpace == {" ", "\t"}

RECURSIVE SkipHSpace(_)
SkipHSpace(s) == IF s # <<>> /\ Head(s).c \in HSpace THEN SkipHSpace(Tail(s)) ELSE s

\* re.sub(r'[ \t]+', ' ', text): a maximal stretch of spaces and tabs becomes one space.
RECURSIVE CollapseHSpace(_)
CollapseHSpace(s) ==
    IF s = <<>> THEN <<>>
    ELSE IF Head(s).c \in HSpace
         THEN <<Run(" ", 1)>> \o CollapseHSpace(SkipHSpace(Tail(s)))
         ELSE <<Head(s)>> \o CollapseHSpace(Tail(s))

\* re.sub(r' +\n', '\n', text): spaces directly before a newline are removed.
RECURSIVE DropSpaceBeforeNewline(_)
DropSpaceBeforeNewline(s) ==
    IF s = <<>> THEN <<>>
    ELSE IF Head(s).c = " " /\ Len(s) >= 2 /\ s[2].c = "\n"
         THEN DropSpaceBeforeNewline(Tail(s))
         ELSE <<Head(s)>> \o DropSpaceBeforeNewline(Tail(s))

\* End positions of the runs of s.
RECURSIVE RunEnds(_, _)
RunEnds(s, before) ==
    IF s = <<>> THEN {}
    ELSE {before + Head(s).n} \cup RunEnds(Tail(s), before + Head(s).n)

\* Start positions of the case-insensitive occurrences of phrase in s.  An
\* occurrence starts in a run of the phrase's first character and uses exactly
\* the last Head(phrase).n characters of that run, the next phrase character
\* being a different one.
Occurrences(s, phrase) ==
    LET low == Lower(s)
        k   == Head(phrase).n
        L   == StrLen(phrase)
    IN  {p \in {e - k + 1 : e \in RunEnds(low, 0)} :
            p >= 1 /\ Take(Drop(low, p - 1), L) = phrase}

Min(S) == CHOOSE x \in S : \A y \in S : x <= y

\* The rest of the text from the next newline on ('.' does not match a newline).
RECURSIVE FromNewline(_)
FromNewline(s) == IF s # <<>> /\ Head(s).c # "\n" THEN FromNewline(Tail(s)) ELSE s

\* re.sub(phrase + r'.*?(?=\n|$)', '', text, flags=re.IGNORECASE): on every line,
\* the text from the first occurrence of the phrase to the end of the line goes.
RECURSIVE RemoveNoise(_, _)
RemoveNoise(s, phrase) ==
    LET occ == Occurrences(s, phrase)
    IN  IF occ = {} THEN s
        ELSE LET p == Min(occ)
             IN  Concat(Take(s, p - 1),
                        RemoveNoise(FromNewline(Drop(s, p - 1 + StrLen(phrase))), phrase))

\* Lines 176-187: the text as it reaches the truncation step.
PreTruncate(text) ==
    LET t1 == NFKC(text)
        t2 == Canon(CollapseNewlines(t1))
        t3 == Canon(CollapseHSpace(t2))
        t4 == Canon(DropSpaceBeforeNewline(t3))
        t5 == RemoveNoise(t4, NoiseShare)
        t6 == RemoveNoise(t5, NoiseApply)
    IN  RemoveNoise(t6, NoiseSimilar)

\* The truncation with the slice one character too long.
Truncate_off_by_one(t) ==
    IF StrLen(t) > MAX_CHARS THEN Concat(Take(t, MAX_CHARS + 1), TRUNCATION_MARKER) ELSE t

\* Lines 189-191: if len(text) > 8000: text = text[:8000] + marker.
Truncate(t) ==
    IF StrLen(t) > MAX_CHARS THEN Concat(Take(t, MAX_CHARS), TRUNCATION_MARKER) ELSE t

\* Lines 176-193 for a non-empty text: the value stored in cleaned_text.
CleanText(text) == Strip(Truncate(PreTruncate(text)))

(***************************************************************************)
(* JobApplication, FetchError (models.py) and the graph state              *)
(* (pipeline.py:27-46, 132-144)                                            *)
(***************************************************************************)

\* InputMode.URL.value, InputMode.TEXT.value
InputMode_URL == PyStr(Lit(<<"u", "r", "l">>))
InputMode_TEXT == PyStr(Lit(<<"t", "e", "x", "t">>))

\* FetchError(code=..., message=..., recoverable=...); the model keeps the fixed
\* head of the message, not the status or exception text formatted into it.
FetchError(code, message, recoverable) ==
    [code |-> code, message |-> message, recoverable |-> recoverable]

\* The default of FetchError.recoverable.
RECOVERABLE_DEFAULT == TRUE

\* JobApplication.  location, salary_range and job_type are carried through
\* unread by every node and are left out.
JobApplication(company, title, description, requirements, url, job_id) ==
    [company |-> company, title |-> title, description |-> description,
     requirements |-> requirements, url |-> url, job_id |-> job_id]

\* run_extraction: mode_str = input_mode.value if hasattr(input_mode, 'value')
\* else str(input_mode).  A mode argument is [enum |-> BOOLEAN, value |-> str].
mode_str(input_mode) == input_mode.value

\* initial_state of run_extraction.  There is no "user_id" key.
initial_state(a) ==
    [input_mode   |-> mode_str(a.input_mode),
     input_url    |-> a.input_url,
     input_text   |-> a.input_text,
     fetched_text |-> None,
     cleaned_text |-> None,
     fetch_error  |-> None,
     extracted    |-> None,
     fingerprint  |-> None,
     is_duplicate |-> FALSE,
     existing_id  |-> None,
     error        |-> None]

\* state.get(key): None for a key the dict does not hold.
StateGet(st, key) == IF key \in DOMAIN st THEN st[key] ELSE None

\* The graph applies a node's returned dict to the state, key by key.
Merge(st, upd) == [k \in DOMAIN st |-> IF k \in DOMAIN upd THEN upd[k] ELSE st[k]]

(***************************************************************************)
(* Nodes (nodes.py)                                                        *)
(***************************************************************************)

\* is_url_mode without the case-insensitive comparison.
is_url_mode_case_sensitive(input_mode) == input_mode = InputMode_URL

\* is_url_mode of route_input and should_fetch, for the str the state holds:
\* input_mode == InputMode.URL or input_mode == "url" or
\* str(input_mode).lower() == "url".
is_url_mode(input_mode) ==
    \/ input_mode = InputMode_URL
    \/ PyStr(Lower(input_mode.str)) = InputMode_URL

\* route_input that forgets to seed fetched_text on the direct branch.
route_input_unseeded(st) ==
    IF is_url_mode(StateGet(st, "input_mode"))
    THEN [input_mode |-> InputMode_URL]
    ELSE [input_mode |-> InputMode_TEXT]

\* route_input that moves the raw text to fetched_text and clears input_text.
route_input_moves_text(st) ==
    IF is_url_mode(StateGet(st, "input_mode"))
    THEN [input_mode |-> InputMode_URL]
    ELSE [input_mode |-> InputMode_TEXT, fetched_text |-> StateGet(st, "input_text"),
          input_text |-> None]

route_input(st) ==
    IF is_url_mode(StateGet(st, "input_mode"))
    THEN [input_mode |-> InputMode_URL]
    ELSE [input_mode |-> InputMode_TEXT, fetched_text |-> StateGet(st, "input_text")]

should_fetch(st) == IF is_url_mode(StateGet(st, "input_mode")) THEN "fetch" ELSE "clean"

\* check_fetch_error that never reports the error.
check_fetch_error_ignores(st) == "continue"

check_fetch_error(st) == IF StateGet(st, "fetch_error") # None THEN "error" ELSE "continue"

MIN_EXTRACTED_CHARS == 100

\* The length test taken on the text as returned, without strip().
TooShort_unstripped(extracted) ==
    ~Truthy(extracted) \/ StrLen(extracted.str) < MIN_EXTRACTED_CHARS

\* not extracted or len(extracted.strip()) < 100
TooShort(extracted) ==
    ~Truthy(extracted) \/ StrLen(Strip(extracted.str)) < MIN_EXTRACTED_CHARS

\* The 429 branch written without its code.
StatusPolicy_429_without_code(status) ==
    IF status \in {401, 403} THEN FetchError(PyInt(status), "Access denied", TRUE)
    ELSE IF status = 429 THEN FetchError(None, "Rate limited", TRUE)
    ELSE IF status >= 400 THEN FetchError(PyInt(status), "HTTP error", TRUE)
    ELSE None

\* The HTTPStatusError branch marking its error as not recoverable.
StatusPolicy_http_error_unrecoverable(status) ==
    IF status \in {401, 403} THEN FetchError(PyInt(status), "Access denied", TRUE)
    ELSE IF status = 429 THEN FetchError(PyInt(429), "Rate limited", TRUE)
    ELSE IF status >= 400 THEN FetchError(PyInt(status), "HTTP error", FALSE)
    ELSE None

\* Lines 74-93 and 142-150: the fetch_error a response status leads to, None for
\* a status raise_for_status() accepts.
StatusPolicy(status) ==
    IF status \in {401, 403} THEN FetchError(PyInt(status), "Access denied", TRUE)
    ELSE IF status = 429 THEN FetchError(PyInt(429), "Rate limited", TRUE)
    ELSE IF status >= 400 THEN FetchError(PyInt(status), "HTTP error", TRUE)
    ELSE None

\* fetch_url.  o is what the collaborators answer: o.get is "timeout", "error"
\* (any other exception of the request or of trafilatura) or "response" with
\* o.status; o.pass1 and o.pass2 are the results of the two trafilatura.extract
\* calls on the page.
fetch_url(st, o) ==
    IF ~Truthy(StateGet(st, "input_url"))
    THEN [fetch_error |-> FetchError(None, "No URL provided", RECOVERABLE_DEFAULT)]
    ELSE IF o.get = "timeout"
    THEN [fetch_error |-> FetchError(None, "Request timed out", TRUE)]
    ELSE IF o.get = "error"
    THEN [fetch_error |-> FetchError(None, "Failed to fetch URL", TRUE)]
    ELSE IF StatusPolicy(o.status) # None
    THEN [fetch_error |-> StatusPolicy(o.status)]
    ELSE LET second    == TooShort(o.pass1)
             extracted == IF second THEN o.pass2 ELSE o.pass1
         IN  IF second /\ TooShort(o.pass2)
             THEN [fetch_error |->
                      FetchError(None, "Could not extract enough text from page", TRUE)]
             ELSE [fetched_text |-> extracted, fetch_error |-> None]

\* The number of trafilatura.extract calls fetch_url makes (lines 99 and 112).
extract_passes(st, o) ==
    IF ~Truthy(StateGet(st, "input_url")) \/ o.get # "response" \/ StatusPolicy(o.status) # None
    THEN 0
    ELSE IF TooShort(o.pass1) THEN 2 ELSE 1

\* fetch_url issuing the GET before it tests the URL.
fetch_requests_before_url_test(st) == 1

\* The number of HTTP GETs fetch_url issues.
fetch_requests(st) == IF Truthy(StateGet(st, "input_url")) THEN 1 ELSE 0

clean_text(st) ==
    LET fetched   == StateGet(st, "fetched_text")
        input_txt == StateGet(st, "input_text")
        text      == IF Truthy(fetched) THEN fetched ELSE input_txt
    IN  IF ~Truthy(text) THEN [error |-> PyLit("No text to process")]
        ELSE [cleaned_text |-> PyStr(CleanText(text.str))]

\* llm_extract line 206 evaluates len(text) with text = state.get("cleaned_text", ""):
\* the key is always present, so a None value is not replaced by "" and len(None)
\* raises TypeError out of the node.
llm_extract_raises(st) == StateGet(st, "cleaned_text") = None

\* llm_extract without lines 250-251: the URL the model produced is kept.
llm_extract_keeps_model_url(st, o) ==
    LET text == StateGet(st, "cleaned_text")
    IN  IF ~Truthy(text) THEN [error |-> PyLit("No cleaned text to extract from")]
        ELSE IF ~o.api_key THEN [error |-> PyLit("OPENAI_API_KEY not set in environment")]
        ELSE IF o.result = [raised |-> TRUE] THEN [error |-> PyLit("LLM extraction failed")]
        ELSE [extracted |-> o.result]

\* llm_extract.  o.api_key: whether OPENAI_API_KEY is set; o.result: what
\* chain.invoke returns: [raised |-> TRUE] when it raises, None, or a JobApplication.
llm_extract(st, o) ==
    LET text == StateGet(st, "cleaned_text")
        url  == StateGet(st, "input_url")
    IN  IF ~Truthy(text) THEN [error |-> PyLit("No cleaned text to extract from")]
        ELSE IF ~o.api_key THEN [error |-> PyLit("OPENAI_API_KEY not set in environment")]
        ELSE IF o.result = [raised |-> TRUE] THEN [error |-> PyLit("LLM extraction failed")]
        ELSE IF Truthy(url) /\ o.result # None
             THEN [extracted |-> [o.result EXCEPT !.url = url]]
             ELSE [extracted |-> o.result]

\* llm_extract calling the model a second time when the first call raised.
llm_requests_retries(st, o) ==
    IF Truthy(StateGet(st, "cleaned_text")) /\ o.api_key
    THEN IF o.result = [raised |-> TRUE] THEN 2 ELSE 1
    ELSE 0

\* The number of model calls llm_extract makes.
llm_requests(st, o) ==
    IF Truthy(StateGet(st, "cleaned_text")) /\ o.api_key THEN 1 ELSE 0

UNKNOWN_COMPANY ==
    PyStr(Lit(<<"U", "n", "k", "n", "o", "w", "n", " ", "C", "o", "m", "p", "a", "n", "y">>))
UNKNOWN_POSITION ==
    PyStr(Lit(<<"U", "n", "k", "n", "o", "w", "n", " ", "P", "o", "s", "i", "t", "i", "o", "n">>))
NO_DESCRIPTION ==
    PyStr(Lit(<<"N", "o", " ", "d", "e", "s", "c", "r", "i", "p", "t", "i", "o", "n", " ",
              "a", "v", "a", "i", "l", "a", "b", "l", "e">>))

\* The company defaulted only when it is None, not when it is empty.
ValidCompany_none_only(company) ==
    PyStr(Strip((IF company = None THEN UNKNOWN_COMPANY ELSE company).str))

\* Lines 269-270 and 277: the company after validation.
ValidCompany(company) ==
    PyStr(Strip((IF ~Truthy(company) THEN UNKNOWN_COMPANY ELSE company).str))

\* Lines 271-272 and 278.
ValidTitle(title) ==
    PyStr(Strip((IF ~Truthy(title) THEN UNKNOWN_POSITION ELSE title).str))

\* Lines 273-274.
ValidDescription(description) ==
    IF ~Truthy(description) THEN NO_DESCRIPTION ELSE description

\* Lines 268-282 on a record.  requirements is None or a list (the schema
\* JobApplication admits nothing else), so the coercion of line 281 never applies
\* and the list is returned as the model gave it, whatever its length.
Validate(e) ==
    [e EXCEPT !.company = ValidCompany(e.company),
              !.title = ValidTitle(e.title),
              !.description = ValidDescription(e.description)]

normalize_validate(st) ==
    LET extracted == StateGet(st, "extracted")
    IN  IF extracted = None THEN [error |-> PyLit("No extracted data to validate")]
        ELSE [extracted |-> Validate(extracted)]

\* "|".join(components)
RECURSIVE Join(_)
Join(components) ==
    IF components = <<>> THEN Empty
    ELSE IF Len(components) = 1 THEN components[1]
    ELSE Concat(Concat(Head(components), Lit(<<"|">>)), Join(Tail(components)))

\* A component that is trimmed but not lower-cased.
Component_case_sensitive(x) == Strip(x.str)

\* x.lower().strip()
Component(x) == Strip(Lower(x.str))

\* The components with the url preferred to the job_id.
Components_url_first(e) ==
    <<Component(e.company), Component(e.title)>> \o
    (IF Truthy(e.url) THEN <<Component(e.url)>>
     ELSE IF Truthy(e.job_id) THEN <<Component(e.job_id)>>
     ELSE <<>>)

\* Lines 297-306.
Components(e) ==
    <<Component(e.company), Component(e.title)>> \o
    (IF Truthy(e.job_id) THEN <<Component(e.job_id)>>
     ELSE IF Truthy(e.url) THEN <<Component(e.url)>>
     ELSE <<>>)

\* Line 308.
fingerprint_input(e) == Join(Components(e))

SHA256_HEX_CHARS == 64
FINGERPRINT_CHARS == 32

\* hashlib.sha256(s.encode()).hexdigest(): the digest is taken as collision-free,
\* a hex string of 64 characters that stands for its input.
Sha256Hex(s) == [sha256 |-> s, chars |-> SHA256_HEX_CHARS]

\* d[:k] of a hex digest; the prefix is taken as collision-free as well.
HexPrefix(d, k) == [d EXCEPT !.chars = IF k < d.chars THEN k ELSE d.chars]

\* Line 309.
Fingerprint(e) == HexPrefix(Sha256Hex(fingerprint_input(e)), FINGERPRINT_CHARS)

\* check_fingerprint (database.py:315-327): SELECT id ... WHERE fingerprint = ?
\* AND user_id = ?, fetchone().
Matching(rows, user_id, fingerprint) ==
    {r \in rows : r.fingerprint = fingerprint /\ r.user_id = user_id}

check_fingerprint(rows, user_id, fingerprint) ==
    IF Matching(rows, user_id, fingerprint) = {} THEN None
    ELSE PyInt(Min({r.id : r \in Matching(rows, user_id, fingerprint)}))

\* The number of check_fingerprint calls dedupe_check makes: "if user_id:" (line 313).
dedupe_queries(st) ==
    IF StateGet(st, "extracted") # None /\ Truthy(StateGet(st, "user_id")) THEN 1 ELSE 0

\* dedupe_check with the duplicate test inverted (existing_id is None).
dedupe_check_inverted(st, rows) ==
    LET extracted == StateGet(st, "extracted")
        user_id   == StateGet(st, "user_id")
    IN  IF extracted = None THEN [error |-> PyLit("No data to check for duplicates")]
        ELSE LET fingerprint == Fingerprint(extracted)
                 existing_id == IF dedupe_queries(st) = 1
                                THEN check_fingerprint(rows, user_id, fingerprint)
                                ELSE None
             IN  [fingerprint  |-> fingerprint,
                  is_duplicate |-> existing_id = None,
                  existing_id  |-> existing_id]

dedupe_check(st, rows) ==
    LET extracted == StateGet(st, "extracted")
        user_id   == StateGet(st, "user_id")
    IN  IF extracted = None THEN [error |-> PyLit("No data to check for duplicates")]
        ELSE LET fingerprint == Fingerprint(extracted)
                 existing_id == IF dedupe_queries(st) = 1
                                THEN check_fingerprint(rows, user_id, fingerprint)
                                ELSE None
             IN  [fingerprint  |-> fingerprint,
                  is_duplicate |-> existing_id # None,
                  existing_id  |-> existing_id]

(***************************************************************************)
(* The compiled graph (pipeline.py:49-92), run_extraction and its caller   *)
(***************************************************************************)

\* The graph wired without the normalize node: extract -> dedupe.
LinearEdge_skips_normalize(node) ==
    CASE node = "clean" -> "extract"
      [] node = "extract" -> "dedupe"
      [] node = "normalize" -> "dedupe"
      [] node = "dedupe" -> "END"

\* graph.add_edge: clean -> extract -> normalize -> dedupe -> END.
LinearEdge(node) ==
    CASE node = "clean" -> "extract"
      [] node = "extract" -> "normalize"
      [] node = "normalize" -> "dedupe"
      [] node = "dedupe" -> "END"

\* The route node wired to fetch whatever should_fetch answers.
RouteEdge_always_fetch(st) == "fetch"

\* graph.add_conditional_edges("route", should_fetch, {...})
RouteEdge(st) == IF should_fetch(st) = "fetch" THEN "fetch" ELSE "clean"

\* graph.add_conditional_edges("fetch", check_fetch_error, {...})
FetchEdge(st) == IF check_fetch_error(st) = "error" THEN "END" ELSE "clean"

MaxRuns == 2

Users == {PyStr(Lit(<<"a">>)), PyStr(Lit(<<"b">>))}

Modes ==
    {[enum |-> TRUE, value |-> InputMode_URL],
     [enum |-> TRUE, value |-> InputMode_TEXT],
     [enum |-> FALSE, value |-> PyStr(Lit(<<"U", "R", "L">>))],
     [enum |-> FALSE, value |-> PyStr(Lit(<<"T", "e", "x", "t">>))]}

Urls == {None, PyStr(Empty), PyStr(Lit(<<"U">>))}

Texts ==
    {None, PyStr(Empty), PyStr(Lit(<<" ">>)), PyStr(Lit(<<" ", "x", "A">>)),
     PyStr(<<Run("x", MAX_CHARS + 1)>>)}

Args == [input_mode : Modes, input_url : Urls, input_text : Texts]

\* What trafilatura.extract may return for a page.
PageTexts ==
    {None, PyStr(<<Run("x", MIN_EXTRACTED_CHARS - 1)>>),
     PyStr(<<Run("x", MIN_EXTRACTED_CHARS)>>),
     PyStr(<<Run(" ", 2), Run("x", MIN_EXTRACTED_CHARS - 1)>>)}

ErrorStatuses == {401, 403, 404, 429, 500}

FetchOutcomes ==
    {[get |-> g, status |-> 0, pass1 |-> None, pass2 |-> None] : g \in {"timeout", "error"}}
    \cup {[get |-> "response", status |-> s, pass1 |-> None, pass2 |-> None] :
             s \in ErrorStatuses}
    \cup {[get |-> "response", status |-> 200, pass1 |-> p1, pass2 |-> p2] :
             p1 \in PageTexts, p2 \in PageTexts}

\* A list of n requirement strings.
PyList(items) == [list |-> items]
Requirements(n) == PyList([i \in 1..n |-> PyStr(Lit(<<"r">>))])

\* The prompt of llm_extract asks for "max 5 items" (nodes.py:235).
MAX_REQUIREMENTS == 5

\* What the structured-output chain may return.
ModelRecords ==
    {JobApplication(PyStr(Lit(<<"A", "b">>)), PyStr(Lit(<<"t">>)), PyStr(Lit(<<"d">>)),
                    None, None, None),
     JobApplication(PyStr(Lit(<<" ", "a", "b">>)), PyStr(Lit(<<"T", " ">>)), PyStr(Lit(<<"d">>)),
                    Requirements(MAX_REQUIREMENTS), PyStr(Lit(<<"m">>)), None),
     JobApplication(PyStr(Empty), PyStr(Empty), PyStr(Empty),
                    Requirements(MAX_REQUIREMENTS + 1), None, PyStr(Lit(<<"J">>))),
     JobApplication(PyStr(Lit(<<" ">>)), PyStr(Lit(<<"t">>)), PyStr(Lit(<<"d">>)),
                    None, None, PyStr(Lit(<<" ">>)))}

LlmOutcomes ==
    {[api_key |-> FALSE, result |-> None]}
    \cup {[api_key |-> TRUE, result |-> r] : r \in {[raised |-> TRUE], None} \cup ModelRecords}

NoState == [k \in {} |-> None]

FreshEnv ==
    [http |-> None, http_calls |-> 0, extract_calls |-> 0,
     llm |-> None, llm_calls |-> 0, fp_queries |-> 0]

Init ==
    /\ pc = "idle"
    /\ state = NoState
    /\ args = None
    /\ env = FreshEnv
    /\ trace = <<>>
    /\ applications = {}
    /\ session = [user |-> None, saved |-> FALSE]
    /\ runs = 0
    /\ unit = None

\* A logged-in user's page calls run_extraction (pipeline.py:107-147); the call
\* carries no identity.
StartRun ==
    /\ pc \in {"idle", "END", "raised"}
    /\ runs < MaxRuns
    /\ \E a \in Args, u \in Users :
          /\ args' = a
          /\ session' = [user |-> u, saved |-> FALSE]
          /\ state' = initial_state(a)
    /\ pc' = "route"
    /\ env' = FreshEnv
    /\ trace' = <<>>
    /\ runs' = runs + 1
    /\ UNCHANGED <<applications, unit>>

Route ==
    /\ pc = "route"
    /\ state' = Merge(state, route_input(state))
    /\ pc' = RouteEdge(state')
    /\ trace' = Append(trace, "route")
    /\ UNCHANGED <<args, env, applications, session, runs, unit>>

Fetch ==
    /\ pc = "fetch"
    /\ \E o \in FetchOutcomes :
          /\ fetch_requests(state) = 0 => o = [get |-> "error", status |-> 0,
                                               pass1 |-> None, pass2 |-> None]
          /\ state' = Merge(state, fetch_url(state, o))
          /\ env' = [env EXCEPT !.http = IF fetch_requests(state) = 1 THEN o ELSE None,
                                !.http_calls = @ + fetch_requests(state),
                                !.extract_calls = @ + extract_passes(state, o)]
    /\ pc' = FetchEdge(state')
    /\ trace' = Append(trace, "fetch")
    /\ UNCHANGED <<args, applications, session, runs, unit>>

Clean ==
    /\ pc = "clean"
    /\ state' = Merge(state, clean_text(state))
    /\ pc' = LinearEdge("clean")
    /\ trace' = Append(trace, "clean")
    /\ UNCHANGED <<args, env, applications, session, runs, unit>>

\* The TypeError of llm_extract leaves graph.invoke and run_extraction uncaught.
ExtractRaises ==
    /\ pc = "extract"
    /\ llm_extract_raises(state)
    /\ pc' = "raised"
    /\ trace' = Append(trace, "extract")
    /\ UNCHANGED <<state, args, env, applications, session, runs, unit>>

Extract ==
    /\ pc = "extract"
    /\ ~llm_extract_raises(state)
    /\ \E o \in LlmOutcomes :
          /\ ~Truthy(StateGet(state, "cleaned_text")) => o = [api_key |-> FALSE, result |-> None]
          /\ ~o.api_key => o.result = None
          /\ state' = Merge(state, llm_extract(state, o))
          /\ env' = [env EXCEPT !.llm = IF Truthy(StateGet(state, "cleaned_text"))
                                        THEN o ELSE None,
                                !.llm_calls = @ + llm_requests(state, o)]
    /\ pc' = LinearEdge("extract")
    /\ trace' = Append(trace, "extract")
    /\ UNCHANGED <<args, applications, session, runs, unit>>

Normalize ==
    /\ pc = "normalize"
    /\ state' = Merge(state, normalize_validate(state))
    /\ pc' = LinearEdge("normalize")
    /\ trace' = Append(trace, "normalize")
    /\ UNCHANGED <<args, env, applications, session, runs, unit>>

Dedupe ==
    /\ pc = "dedupe"
    /\ state' = Merge(state, dedupe_check(state, applications))
    /\ env' = [env EXCEPT !.fp_queries = @ + dedupe_queries(state)]
    /\ pc' = LinearEdge("dedupe")
    /\ trace' = Append(trace, "dedupe")
    /\ UNCHANGED <<args, applications, session, runs, unit>>

\* save_application (database.py:173-209) for the logged-in user, with the
\* result the page kept (pages/1_new_application.py:113-129): INSERT under
\* UNIQUE(user_id, fingerprint) (database.py:70); a conflicting INSERT raises
\* and leaves the table as it was.
NextId(rows) == IF rows = {} THEN 1 ELSE 1 + CHOOSE m \in {r.id : r \in rows} :
                                               \A r \in rows : r.id <= m

save_application(rows, user_id, fingerprint) ==
    IF \E r \in rows : r.user_id = user_id /\ r.fingerprint = fingerprint
    THEN rows
    ELSE rows \cup {[id |-> NextId(rows), user_id |-> user_id, fingerprint |-> fingerprint]}

SaveApplication ==
    /\ pc = "END"
    /\ ~session.saved
    /\ StateGet(state, "fetch_error") = None
    /\ StateGet(state, "error") = None
    /\ StateGet(state, "extracted") # None
    /\ applications' = save_application(applications, session.user, state.fingerprint)
    /\ session' = [session EXCEPT !.saved = TRUE]
    /\ UNCHANGED <<pc, state, args, env, trace, runs, unit>>

Next ==
    \/ StartRun
    \/ Route
    \/ Fetch
    \/ Clean
    \/ ExtractRaises
    \/ Extract
    \/ Normalize
    \/ Dedupe
    \/ SaveApplication

Spec == Init /\ [][Next]_vars

(***************************************************************************)
(* Properties of the pipeline                                              *)
(***************************************************************************)

Ran(node) == \E i \in DOMAIN trace : trace[i] = node

LaterStages == {"clean", "extract", "normalize", "dedupe"}

\* C1: whenever fetch_error is set the run has terminated at END right after the
\* Fetcher: none of clean, extract, normalize, dedupe has executed in this
\* invocation, and extracted and fingerprint are unset.
C1_FetchErrorTerminates ==
    StateGet(state, "fetch_error") # None =>
        /\ pc = "END"
        /\ trace = <<"route", "fetch">>
        /\ \A n \in LaterStages : ~Ran(n)
        /\ state.extracted = None
        /\ state.fingerprint = None

C1_Witness ==
    /\ pc = "END"
    /\ StateGet(state, "fetch_error") # None
    /\ Ran("fetch")

\* C2: once the GET has answered 401, 403 or 429, the run is at END with
\* fetch_error set, fetch_error.code the response status, recoverable true,
\* extracted unset, and no stage after the Fetcher executed.
C2_AccessDeniedOrRateLimited ==
    (env.http # None /\ env.http.get = "response" /\ env.http.status \in {401, 403, 429}) =>
        /\ pc = "END"
        /\ state.fetch_error # None
        /\ state.fetch_error.code = PyInt(env.http.status)
        /\ state.fetch_error.recoverable = TRUE
        /\ state.extracted = None
        /\ \A n \in LaterStages : ~Ran(n)

C2_Witness ==
    /\ pc = "END"
    /\ env.http # None
    /\ env.http.get = "response"
    /\ env.http.status = 429
    /\ state.fetch_error # None

\* The call is in direct mode: its mode is not the URL mode.
DirectMode == args # None /\ ~is_url_mode(mode_str(args.input_mode))

\* C3: in a direct-mode run with a non-empty text, from the Router on
\* fetched_text is that text, the Fetcher has not run and no GET was issued.
C3_DirectTextIsSeeded ==
    (DirectMode /\ Truthy(args.input_text) /\ Ran("route")) =>
        /\ state.fetched_text = args.input_text
        /\ ~Ran("fetch")
        /\ env.http_calls = 0

C3_Witness ==
    /\ DirectMode
    /\ Truthy(args.input_text)
    /\ pc = "END"
    /\ state.fingerprint # None
    /\ state.fetched_text = args.input_text

\* The rows stored for the calling user under the fingerprint of the run.
StoredForCaller == Matching(applications, session.user, state.fingerprint)

\* C6 as claimed: a run that ends with a fingerprint reports is_duplicate exactly
\* when the store already held a record of the calling identity under that
\* fingerprint (false on the first run, true on the identical run after the
\* save), and then existing_id is that record.
C6_DuplicateOnSecondRun ==
    (pc = "END" /\ state.fingerprint # None /\ ~session.saved) =>
        /\ state.is_duplicate = (StoredForCaller # {})
        /\ StoredForCaller # {} =>
               state.existing_id \in {PyInt(r.id) : r \in StoredForCaller}

\* The state with the caller identity uid under "user_id".
WithIdentity(st, uid) ==
    [k \in DOMAIN st \cup {"user_id"} |-> IF k = "user_id" THEN uid ELSE st[k]]

\* C7: is_duplicate is true only with existing_id set; a run whose state carries
\* no identity never queries the store and keeps is_duplicate false and
\* existing_id unset.  The same holds of dedupe_check applied to the current
\* state under every identity, present or absent.
C7_DuplicateHasExistingId ==
    pc # "idle" =>
        /\ state.is_duplicate => state.existing_id # None
        /\ StateGet(state, "user_id") = None =>
               /\ env.fp_queries = 0
               /\ ~state.is_duplicate
               /\ state.existing_id = None
        /\ \A uid \in Users \cup {None} :
               LET st  == WithIdentity(state, uid)
                   out == dedupe_check(st, applications)
               IN  "is_duplicate" \in DOMAIN out =>
                       /\ out.is_duplicate => out.existing_id # None
                       /\ uid = None => (dedupe_queries(st) = 0 /\ ~out.is_duplicate)

\* A finished run without identity whose fingerprint the store holds for the caller.
C7_Witness ==
    /\ pc = "END"
    /\ state.fingerprint # None
    /\ StateGet(state, "user_id") = None
    /\ ~state.is_duplicate
    /\ StoredForCaller # {}
    /\ dedupe_check(WithIdentity(state, session.user), applications).is_duplicate

\* C8: whenever fingerprint is set, extracted is set, normalize_validate ran
\* before dedupe_check in this invocation, and extracted is the Validator's
\* output for the record the Extractor produced.
C8_FingerprintImpliesValidated ==
    StateGet(state, "fingerprint") # None =>
        /\ state.extracted # None
        /\ \E i, j \in DOMAIN trace :
               i < j /\ trace[i] = "normalize" /\ trace[j] = "dedupe"
        /\ state.extracted = Validate(llm_extract(state, env.llm).extracted)

C8_Witness ==
    /\ pc = "END"
    /\ StateGet(state, "fingerprint") # None
    /\ state.extracted # llm_extract(state, env.llm).extracted

(***************************************************************************)
(* Node functions applied on their own to drawn inputs                     *)
(***************************************************************************)

\* The pipeline at rest; the specifications below leave it there.
AtRest ==
    /\ pc = "idle"
    /\ state = NoState
    /\ args = None
    /\ env = FreshEnv
    /\ trace = <<>>
    /\ applications = {}
    /\ session = [user |-> None, saved |-> FALSE]
    /\ runs = 0

pipeline_vars == <<pc, state, args, env, trace, applications, session, runs>>

\* The strings of at most n characters over chars.
Strings(chars, n) == {Lit(cs) : cs \in UNION {[1..k -> chars] : k \in 0..n}}

\* The state a node receives in a direct-mode run, with one field set.
NodeState(field, value) ==
    [initial_state([input_mode |-> [enum |-> TRUE, value |-> InputMode_TEXT],
                    input_url |-> None, input_text |-> None])
        EXCEPT ![field] = value]

\* A call of node function fn on arg that has not returned yet.
Call(fn, arg) == [fn |-> fn, arg |-> arg, ret |-> None]

Returned(fn) == unit # None /\ unit.fn = fn /\ unit.ret # None

(***************************************************************************)
(* dedupe_check on one record                                              *)
(***************************************************************************)

MaxCompanyLen == 3

FpCompanies == {PyStr(x) : x \in Strings({"a", "A", " "}, MaxCompanyLen)}

FpTitles == {PyStr(Lit(<<"a">>)), PyStr(Lit(<<"a", "|", "a">>))}

FpDescriptions == {PyStr(Lit(<<"d">>)), PyStr(Empty)}

\* <<job_id, url>>
FpIds ==
    {<<None, None>>, <<PyStr(Lit(<<" ">>)), None>>, <<PyStr(Empty), PyStr(Lit(<<"A">>))>>,
     <<PyStr(Lit(<<"a">>)), PyStr(Lit(<<"|">>))>>, <<PyStr(Lit(<<"a">>)), None>>}

FpRecords ==
    {JobApplication(c, t, d, None, id[2], id[1]) :
        c \in FpCompanies, t \in FpTitles, d \in FpDescriptions, id \in FpIds}

FpInit == AtRest /\ unit \in {Call("dedupe_check", e) : e \in FpRecords}

FpApply ==
    /\ unit.fn = "dedupe_check"
    /\ unit.ret = None
    /\ unit' = [unit EXCEPT !.ret = dedupe_check(NodeState("extracted", unit.arg), {})]
    /\ UNCHANGED pipeline_vars

FpNext == FpApply

FpSpec == FpInit /\ [][FpNext]_vars

\* The fingerprint dedupe_check computes for record e.
FingerprintOf(e) == dedupe_check(NodeState("extracted", e), {}).fingerprint

\* job_id-or-url: the identity field the record offers, job_id before url.
JobIdOrUrl(e) ==
    IF Truthy(e.job_id) THEN e.job_id ELSE IF Truthy(e.url) THEN e.url ELSE None

\* x without its whitespace and in lower case.
Squash(x) ==
    IF x = None THEN None
    ELSE PyStr(Canon(SelectSeq(Lower(x.str), LAMBDA r : r.c \notin Whitespace)))

\* x without leading and trailing whitespace and in lower case.
Trimmed(x) == IF x = None THEN None ELSE PyStr(Lower(Strip(x.str)))

\* a and b differ at most in letter case and whitespace.
SameUpToCaseAndWhitespace(a, b) ==
    /\ Squash(a.company) = Squash(b.company)
    /\ Squash(a.title) = Squash(b.title)
    /\ Squash(JobIdOrUrl(a)) = Squash(JobIdOrUrl(b))

\* a and b differ at most in letter case and leading or trailing whitespace.
SameUpToCaseAndOuterWhitespace(a, b) ==
    /\ Trimmed(a.company) = Trimmed(b.company)
    /\ Trimmed(a.title) = Trimmed(b.title)
    /\ Trimmed(JobIdOrUrl(a)) = Trimmed(JobIdOrUrl(b))

\* C4 as claimed: the fingerprint has 32 hex characters and is the same for every
\* record that differs from the hashed one only in letter case or whitespace.
C4_CaseAndWhitespaceInsensitive ==
    Returned("dedupe_check") =>
        /\ unit.ret.fingerprint.chars = 32
        /\ \A b \in FpRecords :
               SameUpToCaseAndWhitespace(unit.arg, b) =>
                   FingerprintOf(b) = unit.ret.fingerprint

\* C4 amended: the fingerprint has 32 hex characters and is the same for every
\* record whose company, title and job_id-or-url differ from the hashed one's
\* only in letter case or in leading and trailing whitespace.
C4_CaseAndOuterWhitespaceInsensitive ==
    Returned("dedupe_check") =>
        /\ unit.ret.fingerprint.chars = 32
        /\ \A b \in FpRecords :
               SameUpToCaseAndOuterWhitespace(unit.arg, b) =>
                   FingerprintOf(b) = unit.ret.fingerprint

C4_Witness ==
    /\ Returned("dedupe_check")
    /\ \E b \in FpRecords :
          /\ SameUpToCaseAndOuterWhitespace(unit.arg, b)
          /\ b.company # unit.arg.company
          /\ Lower(b.company.str) = Lower(unit.arg.company.str)
          /\ b.description # unit.arg.description
    /\ \E b \in FpRecords :
          /\ SameUpToCaseAndOuterWhitespace(unit.arg, b)
          /\ Lower(b.company.str) # Lower(unit.arg.company.str)

\* C5 as claimed, with the digest collision-free: a record whose company or
\* title differs from the hashed one's (beyond case and surrounding whitespace,
\* which the fingerprint ignores) has a different fingerprint.
C5_DistinctCompanyOrTitle ==
    Returned("dedupe_check") =>
        \A b \in FpRecords :
            (Trimmed(b.company) # Trimmed(unit.arg.company)
                \/ Trimmed(b.title) # Trimmed(unit.arg.title)) =>
                FingerprintOf(b) # unit.ret.fingerprint

(***************************************************************************)
(* clean_text on one text                                                  *)
(***************************************************************************)

MaxPieces == 3

\* A text is up to MaxPieces of these, one after the other.
Pieces ==
    {<<Run("x", 1)>>, <<Run("x", MAX_CHARS)>>, <<Run(" ", 1)>>, <<Run("\t", 1)>>,
     <<Run("NBSP", 1)>>, <<Run("\n", 1)>>,
     Lit(<<"A", "p", "p", "l", "y", " ", "n", "o", "w">>),
     Lit(<<"\n", " ", "\n", " ", "\n">>)}

RECURSIVE ConcatAll(_)
ConcatAll(ps) == IF ps = <<>> THEN Empty ELSE Concat(Head(ps), ConcatAll(Tail(ps)))

CleanInputs ==
    {PyStr(ConcatAll(ps)) : ps \in UNION {[1..k -> Pieces] : k \in 1..MaxPieces}}

CleanInit == AtRest /\ unit \in {Call("clean_text", t) : t \in CleanInputs}

CleanApply ==
    /\ unit.fn = "clean_text"
    /\ unit.ret = None
    /\ unit' = [unit EXCEPT !.ret = clean_text(NodeState("fetched_text", unit.arg))]
    /\ UNCHANGED pipeline_vars

CleanNext == CleanApply

CleanSpec == CleanInit /\ [][CleanNext]_vars

\* clean_text has returned a cleaned_text.
Cleaned == Returned("clean_text") /\ "cleaned_text" \in DOMAIN unit.ret

\* The text of the call as it reaches the truncation step.
AtTruncation == PreTruncate(unit.arg.str)

\* C9 as claimed: a text longer than 8000 characters at the truncation step
\* gives exactly its first 8000 characters followed by the marker, and no
\* cleaned_text is longer than 8000 characters plus the marker.
C9_TruncatedExactly ==
    Cleaned =>
        /\ StrLen(AtTruncation) > 8000 =>
               unit.ret.cleaned_text =
                   PyStr(Concat(Take(AtTruncation, 8000), TRUNCATION_MARKER))
        /\ StrLen(unit.ret.cleaned_text.str) <= 8000 + StrLen(TRUNCATION_MARKER)

\* C9 amended: a text longer than 8000 characters at the truncation step gives
\* its first 8000 characters followed by the marker, less the whitespace that
\* text starts with (the final strip() removes it); no cleaned_text is longer
\* than 8000 characters plus the marker.
C9_TruncatedThenStripped ==
    Cleaned =>
        /\ StrLen(AtTruncation) > 8000 =>
               unit.ret.cleaned_text =
                   PyStr(LStrip(Concat(Take(AtTruncation, 8000), TRUNCATION_MARKER)))
        /\ StrLen(unit.ret.cleaned_text.str) <= 8000 + StrLen(TRUNCATION_MARKER)

\* A truncated text that starts with whitespace, and one that does not.
C9_Witness ==
    /\ Cleaned
    /\ StrLen(AtTruncation) > 8000
    /\ Head(AtTruncation).c \in Whitespace
    /\ StrLen(unit.ret.cleaned_text.str) < 8000 + StrLen(TRUNCATION_MARKER)

(***************************************************************************)
(* normalize_validate on one record                                        *)
(***************************************************************************)

MaxNameLen == 2

ValCompanies == {None} \cup {PyStr(x) : x \in Strings({"a", " ", "\n"}, MaxNameLen)}

ValTitles == {None, PyStr(Empty), PyStr(Lit(<<" ", "t">>))}

ValDescriptions == {None, PyStr(Empty), PyStr(Lit(<<"d">>))}

ValRecords ==
    {JobApplication(c, t, d, None, None, None) :
        c \in ValCompanies, t \in ValTitles, d \in ValDescriptions}

ValidateInit == AtRest /\ unit \in {Call("normalize_validate", e) : e \in ValRecords}

ValidateApply ==
    /\ unit.fn = "normalize_validate"
    /\ unit.ret = None
    /\ unit' = [unit EXCEPT !.ret = normalize_validate(NodeState("extracted", unit.arg))]
    /\ UNCHANGED pipeline_vars

ValidateNext == ValidateApply

ValidateSpec == ValidateInit /\ [][ValidateNext]_vars

\* s neither starts nor ends with whitespace.
NoOuterWhitespace(s) ==
    s # <<>> /\ Head(s).c \notin Whitespace /\ s[Len(s)].c \notin Whitespace

\* C10 as claimed: an empty or missing company becomes "Unknown Company" and a
\* non-empty company is left untouched.
C10_CompanyUntouched ==
    Returned("normalize_validate") =>
        /\ ~Truthy(unit.arg.company) => unit.ret.extracted.company = UNKNOWN_COMPANY
        /\ Truthy(unit.arg.company) => unit.ret.extracted.company = unit.arg.company

\* C10 amended: an empty or missing company becomes "Unknown Company"; a
\* non-empty company loses its leading and trailing whitespace and is otherwise
\* untouched, so one without such whitespace is returned as it is.
C10_CompanyTrimmed ==
    Returned("normalize_validate") =>
        /\ ~Truthy(unit.arg.company) => unit.ret.extracted.company = UNKNOWN_COMPANY
        /\ Truthy(unit.arg.company) =>
               /\ unit.ret.extracted.company = PyStr(Strip(unit.arg.company.str))
               /\ NoOuterWhitespace(unit.arg.company.str) =>
                      unit.ret.extracted.company = unit.arg.company

\* A non-empty company the Validator changed.
C10_Witness ==
    /\ Returned("normalize_validate")
    /\ Truthy(unit.arg.company)
    /\ unit.ret.extracted.company # unit.arg.company
    /\ Truthy(unit.ret.extracted.company)

\* C11 as claimed: given a non-null record the Validator returns a record (it
\* reports no error), and the record's company, title and description are all
\* non-empty strings.
C11_RequiredFieldsNonEmpty ==
    Returned("normalize_validate") =>
        /\ "error" \notin DOMAIN unit.ret
        /\ "extracted" \in DOMAIN unit.ret
        /\ Truthy(unit.ret.extracted.company)
        /\ Truthy(unit.ret.extracted.title)
        /\ Truthy(unit.ret.extracted.description)

(***************************************************************************)
(* Properties of the pipeline, continued                                   *)
(***************************************************************************)

\* The GET of this run was answered with a status raise_for_status() accepts.
FetchedPage ==
    env.http # None /\ env.http.get = "response" /\ StatusPolicy(env.http.status) = None

NOT_ENOUGH_TEXT == FetchError(None, "Could not extract enough text from page", TRUE)

\* The text has fewer than 100 characters, or there is none.
Under100(t) == t = None \/ StrLen(t.str) < 100

\* The text has fewer than 100 characters once leading and trailing whitespace
\* is removed, or there is none.
Under100Trimmed(t) == t = None \/ StrLen(Strip(t.str)) < 100

\* C12 as claimed: on a successful response the second pass runs exactly when
\* the first returned no text or fewer than 100 characters; the run ends with
\* the "could not extract enough text" fetch_error exactly when both passes are
\* under 100 characters; otherwise fetched_text is the output of the first pass
\* that reached 100 characters.
C12_SecondPassUnder100 ==
    FetchedPage =>
        /\ env.extract_calls = (IF Under100(env.http.pass1) THEN 2 ELSE 1)
        /\ (state.fetch_error = NOT_ENOUGH_TEXT /\ pc = "END") <=>
               (Under100(env.http.pass1) /\ Under100(env.http.pass2))
        /\ ~(Under100(env.http.pass1) /\ Under100(env.http.pass2)) =>
               state.fetched_text =
                   (IF Under100(env.http.pass1) THEN env.http.pass2 ELSE env.http.pass1)

\* C12 amended: the same with every length taken after leading and trailing
\* whitespace is removed; fetched_text is the untrimmed output of the first pass
\* whose trimmed length reached 100 characters.
C12_SecondPassUnder100Trimmed ==
    FetchedPage =>
        /\ env.extract_calls = (IF Under100Trimmed(env.http.pass1) THEN 2 ELSE 1)
        /\ (state.fetch_error = NOT_ENOUGH_TEXT /\ pc = "END") <=>
               (Under100Trimmed(env.http.pass1) /\ Under100Trimmed(env.http.pass2))
        /\ ~(Under100Trimmed(env.http.pass1) /\ Under100Trimmed(env.http.pass2)) =>
               /\ state.fetch_error = None
               /\ state.fetched_text =
                      (IF Under100Trimmed(env.http.pass1) THEN env.http.pass2
                       ELSE env.http.pass1)

\* The first pass returned 100 characters or more that trim to fewer, the second
\* pass ran and its text was taken.
C12_Witness ==
    /\ FetchedPage
    /\ ~Under100(env.http.pass1)
    /\ Under100Trimmed(env.http.pass1)
    /\ env.extract_calls = 2
    /\ state.fetched_text = env.http.pass2
    /\ state.fetched_text # None
    /\ pc = "END"

\* C13 as claimed: no stage raises out of the graph; a run that has started is
\* at a stage or at END with a well-formed state, never aborted by an exception.
C13_NoStageRaises ==
    /\ pc # "raised"
    /\ pc \notin {"idle", "raised"} => DOMAIN state = DOMAIN initial_state(args)

\* The values each stage of the linear part writes to the generic error field.
ErrorsOf(node) ==
    CASE node = "clean" -> {PyLit("No text to process")}
      [] node = "extract" -> {PyLit("No cleaned text to extract from"),
                              PyLit("OPENAI_API_KEY not set in environment"),
                              PyLit("LLM extraction failed")}
      [] node = "normalize" -> {PyLit("No extracted data to validate")}
      [] node = "dedupe" -> {PyLit("No data to check for duplicates")}
      [] OTHER -> {}

\* C14 as claimed: once a stage of the linear part has set the generic error
\* field the run is at END, that stage is the last one that ran, and error holds
\* the value that stage set.  The second conjunct is the same for the caller: at
\* END the error is the one the first failing stage set, and no stage ran after it.
C14_ErrorHalts ==
    /\ (pc # "idle" /\ StateGet(state, "error") # None) =>
           /\ pc = "END"
           /\ state.error \in ErrorsOf(trace[Len(trace)])
    /\ (pc = "END" /\ Ran("extract") /\ env.llm # None /\ ~env.llm.api_key) =>
           /\ state.error = PyLit("OPENAI_API_KEY not set in environment")
           /\ ~Ran("normalize")
           /\ ~Ran("dedupe")

\* The run has stopped: graph.invoke returned or was left by an exception.
Stopped == pc \in {"END", "raised"}

\* C15 as claimed: in a direct-mode run with empty or absent text the Router
\* passes the text through, and the run stops at END with the generic error
\* "No text to process" and with cleaned_text, extracted and fingerprint unset.
C15_EmptyTextReported ==
    (DirectMode /\ ~Truthy(args.input_text)) =>
        /\ Ran("route") => state.fetched_text = args.input_text
        /\ Stopped =>
               /\ pc = "END"
               /\ state.error = PyLit("No text to process")
               /\ state.cleaned_text = None
               /\ state.extracted = None
               /\ state.fingerprint = None

\* The model call of this run returned a record.
ModelCallSucceeded ==
    Ran("extract") /\ env.llm # None /\ env.llm.api_key /\ env.llm.result \in ModelRecords

\* C16: once the model call has succeeded in a run that was given a source URL,
\* extracted.url is the caller's URL, whatever URL the model produced, up to and
\* in the terminal state.
C16_CallerUrlAuthoritative ==
    (ModelCallSucceeded /\ Truthy(args.input_url)) =>
        /\ state.extracted # None
        /\ state.extracted.url = args.input_url

\* A finished run in which the model produced a URL other than the caller's.
C16_Witness ==
    /\ pc = "END"
    /\ ModelCallSucceeded
    /\ Truthy(args.input_url)
    /\ Truthy(env.llm.result.url)
    /\ env.llm.result.url # args.input_url
    /\ state.extracted.url = args.input_url

\* The messages of the Fetcher's failure paths.
FetchFailures ==
    {"No URL provided", "Access denied", "Rate limited", "HTTP error", "Request timed out",
     "Failed to fetch URL", "Could not extract enough text from page"}

\* C17: every fetch_error in a reachable state has recoverable = true, and so
\* has the fetch_error fetch_url returns on the state it is called with whatever
\* the collaborators answer; its message is one of the failure paths'.
C17_AlwaysRecoverable ==
    pc # "idle" =>
        /\ state.fetch_error # None =>
               /\ state.fetch_error.recoverable = TRUE
               /\ state.fetch_error.message \in FetchFailures
        /\ pc = "fetch" =>
               \A o \in FetchOutcomes :
                   fetch_url(state, o).fetch_error # None =>
                       fetch_url(state, o).fetch_error.recoverable = TRUE

\* A run ended by an HTTP error other than 401, 403 and 429.
C17_Witness ==
    /\ pc = "END"
    /\ state.fetch_error # None
    /\ state.fetch_error.message = "HTTP error"
    /\ state.fetch_error.recoverable

(***************************************************************************)
(* The applications table under concurrent saves (database.py)             *)
(***************************************************************************)

\* The applications table of the database file get_connection opens: absent, or
\* left by a version without the user_id column.  The UNIQUE constraints of such
\* a table are whatever it was created with; the source does not say.
DbFiles ==
    {[applications |-> FALSE, user_id_column |-> FALSE, unique |-> {}],
     [applications |-> TRUE, user_id_column |-> FALSE, unique |-> {}],
     [applications |-> TRUE, user_id_column |-> FALSE, unique |-> {{"fingerprint"}}]}

\* _init_tables: CREATE TABLE applications (..., UNIQUE(user_id, fingerprint))
\* only when the table does not exist.
init_tables(db) ==
    IF db.applications THEN db
    ELSE [applications |-> TRUE, user_id_column |-> TRUE,
          unique |-> {{"user_id", "fingerprint"}}]

\* _run_migrations: ALTER TABLE ... ADD COLUMN user_id when it is missing, then
\* CREATE INDEX (not UNIQUE) idx_user_fingerprint: no constraint is added.
run_migrations(db) == [db EXCEPT !.user_id_column = TRUE]

get_connection(db) == run_migrations(init_tables(db))

\* The INSERT of save_application on table db holding rows: sqlite raises
\* IntegrityError and stores nothing when a UNIQUE constraint of the table
\* matches a stored row.
Conflicts(db, rows, row) ==
    {r \in rows : \E cols \in db.unique : \A col \in cols : r[col] = row[col]}

insert_application(db, rows, user_id, fingerprint) ==
    LET row == [id |-> NextId(rows), user_id |-> user_id, fingerprint |-> fingerprint]
    IN  IF Conflicts(db, rows, row) # {} THEN rows ELSE rows \cup {row}

StoreClients == {1, 2}

StoreFingerprints == {Fingerprint(Validate(e)) : e \in ModelRecords}

\* Each client runs the pipeline for its user up to dedupe_check's query, then
\* saves the result.
StoreInit ==
    /\ AtRest
    /\ \E db \in DbFiles, who \in [StoreClients -> Users], fp \in [StoreClients -> StoreFingerprints] :
          unit = [fn |-> "store", db |-> get_connection(db), rows |-> {},
                  clients |-> [c \in StoreClients |->
                                  [pc |-> "check", user_id |-> who[c], fingerprint |-> fp[c],
                                   is_duplicate |-> FALSE, saved |-> None]]]

\* dedupe_check's query for client c (nodes.py:313-318).
StoreCheck(c) ==
    /\ unit # None /\ unit.fn = "store"
    /\ unit.clients[c].pc = "check"
    /\ unit' = [unit EXCEPT !.clients[c].pc = "save",
                            !.clients[c].is_duplicate =
                                check_fingerprint(unit.rows, unit.clients[c].user_id,
                                                  unit.clients[c].fingerprint) # None]
    /\ UNCHANGED pipeline_vars

\* save_application for client c; the INSERT and its commit are one step.
StoreSave(c) ==
    /\ unit # None /\ unit.fn = "store"
    /\ unit.clients[c].pc = "save"
    /\ LET rows == insert_application(unit.db, unit.rows, unit.clients[c].user_id,
                                      unit.clients[c].fingerprint)
       IN  unit' = [unit EXCEPT !.rows = rows,
                                !.clients[c].pc = "done",
                                !.clients[c].saved = IF rows = unit.rows THEN PyLit("IntegrityError")
                                                     ELSE PyInt(NextId(unit.rows))]
    /\ UNCHANGED pipeline_vars

StoreNext == \E c \in StoreClients : StoreCheck(c) \/ StoreSave(c)

StoreSpec == StoreInit /\ [][StoreNext]_vars

Invocations == {1, 2}

\* One stage and its outgoing edge on state st, with fo and lo the answers of
\* the HTTP/trafilatura and model collaborators; the store is not queried (the
\* state carries no identity).
NodeStep(node, st, fo, lo) ==
    CASE node = "route" ->
             LET st2 == Merge(st, route_input(st)) IN [state |-> st2, pc |-> RouteEdge(st2)]
      [] node = "fetch" ->
             LET st2 == Merge(st, fetch_url(st, fo)) IN [state |-> st2, pc |-> FetchEdge(st2)]
      [] node = "clean" ->
             [state |-> Merge(st, clean_text(st)), pc |-> LinearEdge("clean")]
      [] node = "extract" ->
             IF llm_extract_raises(st) THEN [state |-> st, pc |-> "raised"]
             ELSE [state |-> Merge(st, llm_extract(st, lo)), pc |-> LinearEdge("extract")]
      [] node = "normalize" ->
             [state |-> Merge(st, normalize_validate(st)), pc |-> LinearEdge("normalize")]
      [] node = "dedupe" ->
             [state |-> Merge(st, dedupe_check(st, {})), pc |-> LinearEdge("dedupe")]

\* graph.invoke run alone from stage node: where and with what state it stops.
RECURSIVE RunAlone(_, _, _, _)
RunAlone(node, st, fo, lo) ==
    IF node \in {"END", "raised"} THEN [state |-> st, pc |-> node]
    ELSE RunAlone(NodeStep(node, st, fo, lo).pc, NodeStep(node, st, fo, lo).state, fo, lo)

\* The state of every invocation kept in one graph-wide slot.
invoke_state_shared(i) == 1

\* graph.invoke(initial_state) works on the state value of its own call.
invoke_state(i) == i

\* build_extraction_graph(): a compiled graph object, here told apart by the
\* invocation that built it.
build_extraction_graph(i) == [compiled |-> TRUE, built_by |-> i]

PairArgs ==
    {[input_mode |-> [enum |-> TRUE, value |-> InputMode_TEXT], input_url |-> None,
      input_text |-> PyStr(Lit(<<" ", "x", "A">>))],
     [input_mode |-> [enum |-> TRUE, value |-> InputMode_TEXT], input_url |-> PyStr(Lit(<<"U">>)),
      input_text |-> None],
     [input_mode |-> [enum |-> TRUE, value |-> InputMode_URL], input_url |-> PyStr(Lit(<<"U">>)),
      input_text |-> None]}

PairFetchOutcomes ==
    {o \in FetchOutcomes :
        \/ o.get = "timeout"
        \/ o.status = 200 /\ o.pass1 = PyStr(<<Run("x", MIN_EXTRACTED_CHARS)>>) /\ o.pass2 = None}

PairLlmOutcomes ==
    {o \in LlmOutcomes : ~o.api_key \/ (o.result \in ModelRecords /\ o.result.job_id = None)}

PairInit ==
    /\ AtRest
    /\ \E a \in [Invocations -> PairArgs], fo \in [Invocations -> PairFetchOutcomes],
          lo \in [Invocations -> PairLlmOutcomes] :
          unit = [fn |-> "pair", extraction_graph |-> None,
                  states |-> [k \in {invoke_state(i) : i \in Invocations} |-> NoState],
                  inv |-> [i \in Invocations |->
                              [pc |-> "called", graph |-> None, args |-> a[i],
                               http |-> fo[i], llm |-> lo[i]]]]

Pair == unit # None /\ unit.fn = "pair"

\* get_extraction_graph, line 100: if _extraction_graph is None.
PairTestGraph(i) ==
    /\ Pair
    /\ unit.inv[i].pc = "called"
    /\ unit' = [unit EXCEPT !.inv[i].pc = IF unit.extraction_graph = None THEN "build"
                                          ELSE "return"]
    /\ UNCHANGED pipeline_vars

\* Line 101: _extraction_graph = build_extraction_graph().
PairBuildGraph(i) ==
    /\ Pair
    /\ unit.inv[i].pc = "build"
    /\ unit' = [unit EXCEPT !.extraction_graph = build_extraction_graph(i),
                            !.inv[i].pc = "return"]
    /\ UNCHANGED pipeline_vars

\* Line 102 and run_extraction lines 123-147: graph = get_extraction_graph();
\* graph.invoke(initial_state) starts.
PairInvoke(i) ==
    /\ Pair
    /\ unit.inv[i].pc = "return"
    /\ unit' = [unit EXCEPT !.inv[i].graph = unit.extraction_graph,
                            !.inv[i].pc = "route",
                            !.states[invoke_state(i)] = initial_state(unit.inv[i].args)]
    /\ UNCHANGED pipeline_vars

\* The graph runs the stage invocation i is at.
PairStep(i) ==
    /\ Pair
    /\ unit.inv[i].pc \in {"route", "fetch", "clean", "extract", "normalize", "dedupe"}
    /\ LET out == NodeStep(unit.inv[i].pc, unit.states[invoke_state(i)],
                           unit.inv[i].http, unit.inv[i].llm)
       IN  unit' = [unit EXCEPT !.states[invoke_state(i)] = out.state,
                                !.inv[i].pc = out.pc]
    /\ UNCHANGED pipeline_vars

PairNext ==
    \E i \in Invocations :
        PairTestGraph(i) \/ PairBuildGraph(i) \/ PairInvoke(i) \/ PairStep(i)

PairSpec == PairInit /\ [][PairNext]_vars

\* C19: each invocation invokes a compiled graph, starts from the initial state
\* of its own arguments, and stops where and with the state it would stop with
\* when run alone on its own arguments and collaborator answers, however the
\* two are interleaved and whichever of them built the graph.
C19_InvocationsIndependent ==
    Pair =>
        \A i \in Invocations :
            LET me    == unit.inv[i]
                alone == RunAlone("route", initial_state(me.args), me.http, me.llm)
            IN  /\ me.pc \notin {"called", "build", "return"} =>
                       me.graph # None /\ me.graph.compiled
                /\ me.pc = "route" => unit.states[invoke_state(i)] = initial_state(me.args)
                /\ me.pc \in {"END", "raised"} =>
                       /\ me.pc = alone.pc
                       /\ unit.states[invoke_state(i)] = alone.state

\* Both invocations found the graph missing and built one; the first has
\* finished with a fingerprint and uses the graph the other built, while the
\* other is still running on different arguments.
C19_Witness ==
    /\ Pair
    /\ unit.inv[1].pc = "END"
    /\ unit.states[invoke_state(1)].fingerprint # None
    /\ unit.inv[1].graph # None
    /\ unit.inv[1].graph.built_by = 2
    /\ unit.inv[2].graph # None
    /\ unit.inv[2].graph.built_by = 2
    /\ unit.inv[2].pc \in {"clean", "extract", "normalize"}
    /\ unit.inv[2].args # unit.inv[1].args

(***************************************************************************)
(* Session tokens (core/auth.py:69-130)                                    *)
(***************************************************************************)

\* Token expiry: 7 days in seconds.
TOKEN_EXPIRY == 7 * 24 * 60 * 60

\* time.time() is a float; the clock is kept in ticks of half a second, so that
\* int(time.time()) rounds.
TICKS_PER_SECOND == 2

\* int(t) of a clock reading t.
IntSeconds(t) == t \div TICKS_PER_SECOND

\* A str is a sequence of atoms: the character ".", or a chunk without "." that
\* stands for a base64 text, a hex digest or any other text.
Dot == [dot |-> TRUE]
Chunk(text) == [chunk |-> text]

\* json.dumps(payload, separators=(',', ':')) and json.loads: loads gives back
\* what dumps was given and raises on any other text.
JsonDumps(payload) == [json |-> payload]
IsJson(x) == DOMAIN x = {"json"}
JsonLoads(x) == x.json

\* base64.urlsafe_b64encode(x.encode()).decode(): one chunk, free of ".";
\* urlsafe_b64decode(...).decode() gives x back; on a chunk that is no encoding
\* of a JSON text the decode or the json.loads after it raises.
B64Encode(x) == [b64 |-> x]
IsB64(part) == Len(part) = 1 /\ DOMAIN part[1] = {"b64"}
B64Decode(part) == part[1].b64

\* hmac.new(secret, msg, sha256).hexdigest(): taken as unforgeable, a hex chunk
\* that stands for its key and message.
HmacHex(secret, msg) == [hmac |-> msg, key |-> secret]

\* s.split('.')
RECURSIVE Split(_)
Split(s) ==
    IF \A i \in DOMAIN s : s[i] # Dot THEN <<s>>
    ELSE LET k == CHOOSE i \in DOMAIN s : s[i] = Dot /\ \A j \in 1..(i - 1) : s[j] # Dot
         IN  <<SubSeq(s, 1, k - 1)>> \o Split(SubSeq(s, k + 1, Len(s)))

\* sign_token(user_id) with SECRET_KEY = secret, the clock reading t_exp at the
\* first time.time() and t_iat at the second.
sign_token(user_id, secret, t_exp, t_iat) ==
    LET payload     == [user_id |-> user_id,
                        exp |-> IntSeconds(t_exp) + TOKEN_EXPIRY,
                        iat |-> IntSeconds(t_iat)]
        payload_b64 == <<B64Encode(JsonDumps(payload))>>
        signature   == HmacHex(secret, payload_b64)
    IN  payload_b64 \o <<Dot, signature>>

\* payload.get(key, default)
PayloadGet(payload, key, default) == IF key \in DOMAIN payload THEN payload[key] ELSE default

\* The body of verify_token's try block: [raised |-> TRUE] when it raises.
verify_token_try(token, secret, now) ==
    IF secret = None THEN [raised |-> TRUE]
    ELSE IF token = None THEN [raised |-> TRUE]
    ELSE LET parts == Split(token.str)
         IN  IF Len(parts) # 2 THEN None
             ELSE IF parts[2] # <<HmacHex(secret, parts[1])>> THEN None
             ELSE IF ~IsB64(parts[1]) THEN [raised |-> TRUE]
             ELSE IF ~IsJson(B64Decode(parts[1])) THEN [raised |-> TRUE]
             ELSE LET payload == JsonLoads(B64Decode(parts[1]))
                  IN  IF PayloadGet(payload, "exp", 0) * TICKS_PER_SECOND < now THEN None
                      ELSE PayloadGet(payload, "user_id", None)

\* verify_token that rejects the token at the very second of its expiry.
verify_token_expired_at_exp(token, secret, now) ==
    LET out == verify_token_try(token, secret, now)
    IN  IF out = [raised |-> TRUE] THEN None
        ELSE IF out # None /\ JsonLoads(B64Decode(Split(token.str)[1])).exp * TICKS_PER_SECOND <= now
             THEN None
             ELSE out

\* verify_token: except Exception: return None.
verify_token(token, secret, now) ==
    LET out == verify_token_try(token, secret, now)
    IN  IF out = [raised |-> TRUE] THEN None ELSE out

MaxIssued == 2
MaxClock == 2

Secrets == {None, PyLit("k1"), PyLit("k2")}

\* The clock advances by half a second, or by half a second less than the
\* token lifetime.
ClockSteps == {1, TOKEN_EXPIRY * TICKS_PER_SECOND - 1}

\* The tokens a client may present, given the tokens issued so far: those
\* tokens, the same with a tampered signature, with the signature of another
\* token, with a part removed or added, other text, and no str at all.
Presented(issued) ==
    LET toks == {r.token : r \in issued}
    IN  {None, PyStr(<<>>), PyStr(<<Chunk("no-dot-here")>>),
         PyStr(<<Chunk("invalid"), Dot, Chunk("token")>>)}
        \cup {PyStr(t) : t \in toks}
        \cup {PyStr(<<t[1], Dot, Chunk("invalidsignature")>>) : t \in toks}
        \cup {PyStr(<<t[1], Dot, u[3]>>) : t \in toks, u \in toks}
        \cup {PyStr(<<Chunk("tampered"), Dot, t[3]>>) : t \in toks}
        \cup {PyStr(<<t[1]>>) : t \in toks}
        \cup {PyStr(t \o <<Dot, Chunk("x")>>) : t \in toks}

TokenInit ==
    /\ AtRest
    /\ \E k \in Secrets, t \in {0, 1} :
          unit = [fn |-> "token", now |-> t, advances |-> 0, secret |-> k,
                  issued |-> {}, call |-> None]

Token == unit # None /\ unit.fn = "token"

\* SECRET_KEY is set, changed or unset between calls.
TokenSetSecret ==
    /\ Token
    /\ \E k \in Secrets \ {unit.secret} : unit' = [unit EXCEPT !.secret = k, !.call = None]
    /\ UNCHANGED pipeline_vars

TokenClock ==
    /\ Token
    /\ unit.advances < MaxClock
    /\ \E d \in ClockSteps :
          unit' = [unit EXCEPT !.now = @ + d, !.advances = @ + 1, !.call = None]
    /\ UNCHANGED pipeline_vars

\* sign_token(u); with SECRET_KEY unset get_secret_key raises and no token is made.
TokenSign ==
    /\ Token
    /\ unit.secret # None
    /\ Cardinality(unit.issued) < MaxIssued
    /\ \E u \in Users :
          unit' = [unit EXCEPT !.issued = @ \cup
                      {[token |-> sign_token(u, unit.secret, unit.now, unit.now),
                        user_id |-> u, secret |-> unit.secret, at |-> unit.now]},
                                !.call = None]
    /\ UNCHANGED pipeline_vars

\* verify_token(t) on a presented token; call holds the call that has just
\* returned, with the secret key and the clock as they are.
TokenVerify ==
    /\ Token
    /\ \E t \in Presented(unit.issued) :
          unit' = [unit EXCEPT !.call = [token |-> t,
                                         ret |-> verify_token(t, unit.secret, unit.now)]]
    /\ UNCHANGED pipeline_vars

TokenNext == TokenSetSecret \/ TokenClock \/ TokenSign \/ TokenVerify

TokenSpec == TokenInit /\ [][TokenNext]_vars

\* The issued tokens equal to the str presented to the call, signed under the
\* secret key in force and not expired: the clock has not passed the whole
\* second of issue plus 7 days.
ValidFor(call) ==
    {r \in unit.issued :
        /\ call.token = PyStr(r.token)
        /\ r.secret = unit.secret
        /\ unit.now <= (IntSeconds(r.at) + 7 * 24 * 60 * 60) * TICKS_PER_SECOND}

\* C20: verify_token(t) returns u exactly when t is a token sign_token(u)
\* produced under the secret key in force and the current time has not passed
\* its expiry, 7 days after the (whole) second of issue; on every other token
\* (malformed, tampered, expired, signed under another key) it returns None, and
\* it never raises.
C20_VerifyIffSignedAndFresh ==
    (Token /\ unit.call # None) =>
        /\ unit.call.ret # [raised |-> TRUE]
        /\ \A u \in Users :
               unit.call.ret = u <=> (\E r \in ValidFor(unit.call) : r.user_id = u)
        /\ ValidFor(unit.call) = {} => unit.call.ret = None

\* A token verified at the very second of its expiry, and accepted.
C20_Witness ==
    /\ Token
    /\ unit.call # None
    /\ unit.call.ret \in Users
    /\ \E r \in ValidFor(unit.call) :
          unit.now = (IntSeconds(r.at) + TOKEN_EXPIRY) * TICKS_PER_SECOND

(***************************************************************************)
(* User-scoped store operations (database.py:173-327)                      *)
(***************************************************************************)

MaxSaves == 3

\* get_application: SELECT * ... WHERE id = ? AND user_id = ?, fetchone().
get_application(rows, user_id, app_id) ==
    IF \E r \in rows : r.id = app_id /\ r.user_id = user_id
    THEN CHOOSE r \in rows : r.id = app_id /\ r.user_id = user_id
    ELSE None

\* update_application(user_id, app_id, status=status): no statement is run when
\* nothing is to be set; otherwise UPDATE ... WHERE id = ? AND user_id = ?.
update_application(rows, user_id, app_id, status) ==
    IF status = None THEN [rows |-> rows, ret |-> FALSE]
    ELSE [rows |-> {IF r.id = app_id /\ r.user_id = user_id
                    THEN [r EXCEPT !.status = status] ELSE r : r \in rows},
          ret  |-> \E r \in rows : r.id = app_id /\ r.user_id = user_id]

\* delete_application with the user_id condition left out of the WHERE.
delete_application_by_id_only(rows, user_id, app_id) ==
    [rows |-> {r \in rows : r.id # app_id},
     ret  |-> \E r \in rows : r.id = app_id]

\* delete_application: DELETE ... WHERE id = ? AND user_id = ?.
delete_application(rows, user_id, app_id) ==
    [rows |-> {r \in rows : ~(r.id = app_id /\ r.user_id = user_id)},
     ret  |-> \E r \in rows : r.id = app_id /\ r.user_id = user_id]

Statuses == {PyLit("Saved"), PyLit("Applied")}

ScopedFingerprints == {Fingerprint(Validate(e)) : e \in {r \in ModelRecords : r.job_id = None}}

\* The table as _init_tables creates it, empty; seq is the AUTOINCREMENT
\* counter, last the call that has just returned with the rows before it.
ScopedInit ==
    /\ AtRest
    /\ unit = [fn |-> "scoped", db |-> get_connection([applications |-> FALSE,
                                                       user_id_column |-> FALSE, unique |-> {}]),
               rows |-> {}, seq |-> 0, last |-> None]

Scoped == unit # None /\ unit.fn = "scoped"

Returns(op, user_id, ret) == [op |-> op, user_id |-> user_id, ret |-> ret, before |-> unit.rows]

\* save_application(user_id, ...): the INSERT with status 'Saved'.
ScopedSave ==
    /\ Scoped
    /\ unit.seq < MaxSaves
    /\ \E u \in Users, fp \in ScopedFingerprints :
          LET row == [id |-> unit.seq + 1, user_id |-> u, fingerprint |-> fp,
                      status |-> PyLit("Saved")]
          IN  IF Conflicts(unit.db, unit.rows, row) # {}
              THEN unit' = [unit EXCEPT !.last = Returns("save", u, PyLit("IntegrityError"))]
              ELSE unit' = [unit EXCEPT !.rows = @ \cup {row}, !.seq = @ + 1,
                                        !.last = Returns("save", u, PyInt(row.id))]
    /\ UNCHANGED pipeline_vars

ScopedGet ==
    /\ Scoped
    /\ \E u \in Users, id \in 1..MaxSaves :
          unit' = [unit EXCEPT !.last = Returns("get", u, get_application(unit.rows, u, id))]
    /\ UNCHANGED pipeline_vars

ScopedUpdate ==
    /\ Scoped
    /\ \E u \in Users, id \in 1..MaxSaves, st \in Statuses \cup {None} :
          LET out == update_application(unit.rows, u, id, st)
          IN  unit' = [unit EXCEPT !.rows = out.rows, !.last = Returns("update", u, out.ret)]
    /\ UNCHANGED pipeline_vars

ScopedDelete ==
    /\ Scoped
    /\ \E u \in Users, id \in 1..MaxSaves :
          LET out == delete_application(unit.rows, u, id)
          IN  unit' = [unit EXCEPT !.rows = out.rows, !.last = Returns("delete", u, out.ret)]
    /\ UNCHANGED pipeline_vars

ScopedCheck ==
    /\ Scoped
    /\ \E u \in Users, fp \in ScopedFingerprints :
          unit' = [unit EXCEPT !.last =
                      Returns("check", u, check_fingerprint(unit.rows, u, fp))]
    /\ UNCHANGED pipeline_vars

ScopedNext == ScopedSave \/ ScopedGet \/ ScopedUpdate \/ ScopedDelete \/ ScopedCheck

ScopedSpec == ScopedInit /\ [][ScopedNext]_vars

\* The records of the users other than user_id.
OfOthers(rows, user_id) == {r \in rows : r.user_id # user_id}

\* C21: the call that has just returned for user A left the records of every
\* other user as they were, and what it returned is no record of another user:
\* get returns a record of A or nothing, check_fingerprint the id of a record of
\* A or nothing, and update and delete report success only for a record of A.
C21_UserScoped ==
    (Scoped /\ unit.last # None) =>
        LET A == unit.last.user_id
        IN  /\ OfOthers(unit.rows, A) = OfOthers(unit.last.before, A)
            /\ unit.last.op = "get" =>
                   unit.last.ret = None \/ (unit.last.ret \in unit.rows /\ unit.last.ret.user_id = A)
            /\ unit.last.op = "check" =>
                   \/ unit.last.ret = None
                   \/ \E r \in unit.rows : PyInt(r.id) = unit.last.ret /\ r.user_id = A
            /\ (unit.last.op \in {"update", "delete"} /\ unit.last.ret = TRUE) =>
                   \E r \in unit.last.before : r.user_id = A

\* User A's delete named the id of a record of another user and deleted nothing.
C21_Witness ==
    /\ Scoped
    /\ unit.last # None
    /\ unit.last.op = "delete"
    /\ unit.last.ret = FALSE
    /\ OfOthers(unit.rows, unit.last.user_id) # {}
    /\ \E r \in unit.rows : r.user_id = unit.last.user_id
    /\ unit.rows = unit.last.before

\* C22 as claimed: in a terminal state with extracted set, requirements is
\* absent or a sequence of at most 5 strings.
C22_AtMostFiveRequirements ==
    (pc = "END" /\ StateGet(state, "extracted") # None) =>
        \/ state.extracted.requirements = None
        \/ /\ Len(state.extracted.requirements.list) <= 5
           /\ \A i \in DOMAIN state.extracted.requirements.list :
                  "str" \in DOMAIN state.extracted.requirements.list[i]

\* C23: within one invocation the model is called at most once, also when the
\* call failed, and not at all when the credential is absent or the cleaned
\* text is empty or missing.
C23_AtMostOneModelCall ==
    pc # "idle" =>
        /\ env.llm_calls <= 1
        /\ (env.llm # None /\ env.llm.result = [raised |-> TRUE]) => env.llm_calls = 1
        /\ (env.llm # None /\ ~env.llm.api_key) => env.llm_calls = 0
        /\ (Ran("extract") /\ ~Truthy(state.cleaned_text)) => env.llm_calls = 0

\* A finished run whose single model call raised.
C23_Witness ==
    /\ pc = "END"
    /\ env.llm # None
    /\ env.llm.result = [raised |-> TRUE]
    /\ env.llm_calls = 1
    /\ state.error # None

\* The place of a stage in the order route, fetch, clean, extract, normalize, dedupe.
StageOrder(node) ==
    CASE node = "route" -> 1 [] node = "fetch" -> 2 [] node = "clean" -> 3
      [] node = "extract" -> 4 [] node = "normalize" -> 5 [] node = "dedupe" -> 6

\* C24: the stages that have run in this invocation ran in the order route,
\* fetch, clean, extract, normalize, dedupe, each at most once, starting with
\* route, and fetch ran only in a run the Router put on the fetch branch.
C24_SinglePassInOrder ==
    /\ \A i, j \in DOMAIN trace : i < j => StageOrder(trace[i]) < StageOrder(trace[j])
    /\ trace # <<>> => trace[1] = "route"
    /\ Ran("fetch") => (~DirectMode /\ state.input_mode = InputMode_URL)
    /\ (Ran("clean") /\ ~DirectMode) => Ran("fetch")

\* A finished run on the fetch branch in which all six stages ran.
C24_Witness ==
    /\ pc = "END"
    /\ trace = <<"route", "fetch", "clean", "extract", "normalize", "dedupe">>

\* The mode given to the invocation equals "url" up to letter case.
UrlModeGiven == args # None /\ PyStr(Lower(mode_str(args.input_mode).str)) = InputMode_URL

\* C25: once the Router has run, the state's mode is "url" or "text" and the
\* Router, the branch function and the branch taken agree: the fetch branch
\* exactly when the given mode equals "url" up to letter case; right after the
\* Router fetched_text is the raw input text on the direct branch and unset on
\* the fetch branch.
C25_RouterAndBranchAgree ==
    Ran("route") =>
        /\ state.input_mode = (IF UrlModeGiven THEN InputMode_URL ELSE InputMode_TEXT)
        /\ should_fetch(state) = (IF UrlModeGiven THEN "fetch" ELSE "clean")
        /\ should_fetch(initial_state(args)) = should_fetch(state)
        /\ Len(trace) > 1 => trace[2] = should_fetch(state)
        /\ trace = <<"route">> =>
               /\ pc = should_fetch(state)
               /\ state.fetched_text = (IF UrlModeGiven THEN None ELSE args.input_text)

\* A run given the mode as a str in capitals, and given a text too, that took
\* the fetch branch without seeding fetched_text.
C25_Witness ==
    /\ trace = <<"route">>
    /\ pc = "fetch"
    /\ ~args.input_mode.enum
    /\ mode_str(args.input_mode) # InputMode_URL
    /\ Truthy(args.input_text)
    /\ state.fetched_text = None

\* C26: in a URL-mode run with an absent or empty URL, once the Fetcher has run
\* the run is at END with the fetch_error "No URL provided" without code, no
\* HTTP request was issued and fetched_text is unset.
C26_NoUrlProvided ==
    (UrlModeGiven /\ ~Truthy(args.input_url) /\ Ran("fetch")) =>
        /\ pc = "END"
        /\ trace = <<"route", "fetch">>
        /\ state.fetch_error = FetchError(None, "No URL provided", TRUE)
        /\ env.http_calls = 0
        /\ env.http = None
        /\ state.fetched_text = None

\* Such a run with the empty string as URL.
C26_Witness ==
    /\ UrlModeGiven
    /\ args.input_url = PyStr(Empty)
    /\ pc = "END"
    /\ Ran("fetch")
    /\ state.fetch_error # None

\* C29: a step within one invocation never resets a field that holds a value
\* to None, and input_url and input_text are in every state of the invocation
\* the values it was given.
C29_FieldsNeverReset ==
    [][(pc # "idle" /\ runs' = runs) =>
           /\ DOMAIN state' = DOMAIN state
           /\ state'.is_duplicate \in BOOLEAN
           /\ \A k \in DOMAIN state \ {"is_duplicate"} : state[k] # None => state'[k] # None
           /\ state'.input_url = args.input_url
           /\ state'.input_text = args.input_text
           /\ state.input_url = args.input_url
           /\ state.input_text = args.input_text]_vars

\* A finished direct-mode run that was given both a URL and a text and holds a
\* value in every field a successful run sets.
C29_Witness ==
    /\ pc = "END"
    /\ Truthy(args.input_url)
    /\ Truthy(args.input_text)
    /\ state.input_url = args.input_url
    /\ state.input_text = args.input_text
    /\ \A k \in {"fetched_text", "cleaned_text", "extracted", "fingerprint"} : state[k] # None

(***************************************************************************)
(* Properties of dedupe_check on one record, continued                     *)
(***************************************************************************)

\* The hashed text when x is the third component.
WithThird(e, x) ==
    Concat(Concat(Join(<<Trimmed(e.company).str, Trimmed(e.title).str>>), Lit(<<"|">>)),
           Trimmed(x).str)

\* C27: the text dedupe_check hashes ends with the job_id whenever the record has
\* a (non-empty) job_id, with the url only when it has no job_id but a url, and
\* is company and title alone when it has neither; so records that share
\* company, title and a job_id have the same fingerprint whatever their url.
C27_JobIdBeforeUrl ==
    Returned("dedupe_check") =>
        LET e == unit.arg
        IN  /\ Truthy(e.job_id) => unit.ret.fingerprint.sha256 = WithThird(e, e.job_id)
            /\ (~Truthy(e.job_id) /\ Truthy(e.url)) =>
                   unit.ret.fingerprint.sha256 = WithThird(e, e.url)
            /\ (~Truthy(e.job_id) /\ ~Truthy(e.url)) =>
                   unit.ret.fingerprint.sha256 =
                       Join(<<Trimmed(e.company).str, Trimmed(e.title).str>>)
            /\ Truthy(e.job_id) =>
                   \A b \in FpRecords :
                       (b.company = e.company /\ b.title = e.title /\ b.job_id = e.job_id) =>
                           FingerprintOf(b) = unit.ret.fingerprint

C27_Witness ==
    /\ Returned("dedupe_check")
    /\ Truthy(unit.arg.job_id)
    /\ Truthy(unit.arg.url)
    /\ Trimmed(unit.arg.url) # Trimmed(unit.arg.job_id)
    /\ \E b \in FpRecords :
          /\ b.company = unit.arg.company
          /\ b.title = unit.arg.title
          /\ b.job_id = unit.arg.job_id
          /\ b.url = None

(***************************************************************************)
(* Properties of clean_text on one text, continued                         *)
(***************************************************************************)

\* C28 as claimed: no cleaned_text contains three or more newline characters
\* in a row.
C28_NoTripleNewline ==
    Cleaned =>
        \A i \in DOMAIN unit.ret.cleaned_text.str :
            unit.ret.cleaned_text.str[i].c = "\n" => unit.ret.cleaned_text.str[i].n < 3

(***************************************************************************)
(* Login rate limiting (core/session.py, core/auth.py)                     *)
(***************************************************************************)

MAX_LOGIN_ATTEMPTS == 5
COOLDOWN_SECONDS == 60

MaxWaits == 3

\* The rows of the users table: one account.
Accounts ==
    {[id |-> PyStr(Lit(<<"a">>)), email |-> PyStr(Lit(<<"a">>)),
      password_hash |-> [pbkdf2 |-> PyLit("pw")]]}

\* verify_password(password, password_hash)
verify_password(password, password_hash) == password_hash = [pbkdf2 |-> password]

INVALID_LOGIN == PyLit("Invalid email or password")

\* authenticate(email, password): (user_id, error_message); db_ok is whether the
\* connection and the query succeed.
authenticate(email, password, db_ok) ==
    LET rows == {a \in Accounts : a.email = PyStr(Strip(Lower(email.str)))}
    IN  IF ~db_ok THEN [user_id |-> None, error |-> PyLit("Authentication error: ...")]
        ELSE IF rows = {} THEN [user_id |-> None, error |-> INVALID_LOGIN]
        ELSE LET row == CHOOSE a \in rows : TRUE
             IN  IF ~verify_password(password, row.password_hash)
                 THEN [user_id |-> None, error |-> INVALID_LOGIN]
                 ELSE [user_id |-> row.id, error |-> PyStr(Empty)]

\* init_session on a new session.
init_session ==
    [auth_user_id |-> None, auth_user_email |-> None, auth_token |-> None,
     login_attempts |-> 0, last_login_attempt |-> 0]

\* is_rate_limited with the cooldown still running at exactly COOLDOWN_SECONDS.
is_rate_limited_through_cooldown(ss, now) ==
    LET elapsed == now - ss.last_login_attempt
    IN  IF ss.login_attempts >= MAX_LOGIN_ATTEMPTS
        THEN IF elapsed <= COOLDOWN_SECONDS * TICKS_PER_SECOND
             THEN [limited |-> TRUE,
                   remaining |-> (COOLDOWN_SECONDS * TICKS_PER_SECOND - elapsed)
                                     \div TICKS_PER_SECOND,
                   session |-> ss]
             ELSE [limited |-> FALSE, remaining |-> 0,
                   session |-> [ss EXCEPT !.login_attempts = 0]]
        ELSE [limited |-> FALSE, remaining |-> 0, session |-> ss]

\* is_rate_limited() on session ss when time.time() reads now (in ticks):
\* (is_limited, seconds_remaining) and the session it leaves.
is_rate_limited(ss, now) ==
    LET elapsed == now - ss.last_login_attempt
    IN  IF ss.login_attempts >= MAX_LOGIN_ATTEMPTS
        THEN IF elapsed < COOLDOWN_SECONDS * TICKS_PER_SECOND
             THEN [limited |-> TRUE,
                   remaining |-> (COOLDOWN_SECONDS * TICKS_PER_SECOND - elapsed)
                                     \div TICKS_PER_SECOND,
                   session |-> ss]
             ELSE [limited |-> FALSE, remaining |-> 0,
                   session |-> [ss EXCEPT !.login_attempts = 0]]
        ELSE [limited |-> FALSE, remaining |-> 0, session |-> ss]

record_login_attempt(ss, now) ==
    [ss EXCEPT !.login_attempts = @ + 1, !.last_login_attempt = now]

reset_login_attempts(ss) == [ss EXCEPT !.login_attempts = 0]

\* login(email, password) on session ss with SECRET_KEY = secret and the clock
\* reading now throughout the call: the session it leaves, what it returns (or
\* that it raises, when sign_token finds no secret key) and the number of
\* authenticate calls it made.
login(ss, email, password, db_ok, secret, now) ==
    LET lim == is_rate_limited(ss, now)
        res == authenticate(email, password, db_ok)
    IN  IF lim.limited
        THEN [session |-> lim.session,
              ret |-> [success |-> FALSE, wait |-> lim.remaining],
              authenticate_calls |-> 0]
        ELSE IF Truthy(res.user_id)
        THEN LET signed_in == [lim.session EXCEPT
                                   !.auth_user_id = res.user_id,
                                   !.auth_user_email = PyStr(Strip(Lower(email.str)))]
             IN  IF secret = None
                 THEN [session |-> signed_in, ret |-> [raised |-> "ValueError"],
                       authenticate_calls |-> 1]
                 ELSE [session |-> reset_login_attempts(
                                       [signed_in EXCEPT !.auth_token =
                                            PyStr(sign_token(res.user_id, secret, now, now))]),
                       ret |-> [success |-> TRUE, message |-> PyStr(Empty)],
                       authenticate_calls |-> 1]
        ELSE [session |-> record_login_attempt(lim.session, now),
              ret |-> [success |-> FALSE, message |-> res.error],
              authenticate_calls |-> 1]

\* logout()
logout(ss) ==
    [ss EXCEPT !.auth_user_id = None, !.auth_user_email = None, !.auth_token = None]

LoginEmails == {PyStr(Lit(<<"A", " ">>)), PyStr(Lit(<<"x">>))}
LoginPasswords == {PyLit("pw"), PyLit("guess")}

\* The clock advances by half a second, or by half a second less than the
\* cooldown.
LoginClockSteps == {1, COOLDOWN_SECONDS * TICKS_PER_SECOND - 1}

LoginInit ==
    /\ AtRest
    /\ \E k \in {None, PyLit("k1")} :
          unit = [fn |-> "login", now |-> 0, waits |-> 0, secret |-> k,
                  session |-> init_session, call |-> None]

LoginPage == unit # None /\ unit.fn = "login"

\* The login form is submitted.
Login ==
    /\ LoginPage
    /\ \E email \in LoginEmails, password \in LoginPasswords, db_ok \in BOOLEAN :
          LET r == login(unit.session, email, password, db_ok, unit.secret, unit.now)
          IN  unit' = [unit EXCEPT
                          !.session = r.session,
                          !.call = [email |-> email, password |-> password,
                                    db_ok |-> db_ok, at |-> unit.now,
                                    before |-> unit.session, ret |-> r.ret,
                                    authenticate_calls |-> r.authenticate_calls]]
    /\ UNCHANGED pipeline_vars

Logout ==
    /\ LoginPage
    /\ unit.session.auth_user_id # None
    /\ unit' = [unit EXCEPT !.session = logout(@), !.call = None]
    /\ UNCHANGED pipeline_vars

LoginWait ==
    /\ LoginPage
    /\ unit.waits < MaxWaits
    /\ \E d \in LoginClockSteps :
          unit' = [unit EXCEPT !.now = @ + d, !.waits = @ + 1, !.call = None]
    /\ UNCHANGED pipeline_vars

LoginNext == Login \/ Logout \/ LoginWait

LoginSpec == LoginInit /\ [][LoginNext]_vars

\* The login call that has just returned found 5 failed logins recorded.
AfterFiveFailures ==
    /\ LoginPage
    /\ unit.call # None
    /\ unit.call.before.login_attempts = 5

\* Ticks between the last recorded failure and the login call.
SinceLastFailure == unit.call.at - unit.call.before.last_login_attempt

\* The credentials of the login call are an account's.
CorrectCredentials ==
    \E a \in Accounts :
        /\ a.email = PyStr(Strip(Lower(unit.call.email.str)))
        /\ a.password_hash = [pbkdf2 |-> unit.call.password]

\* C30: with 5 failed logins recorded, a login call less than 60 seconds after
\* the last recorded failure is refused whatever the credentials, calls
\* authenticate not at all and leaves the counter and the last-attempt time as
\* they were; a login call 60 seconds or more after it resets the counter and
\* authenticates: with an account's credentials the user is signed in and the
\* counter is 0, otherwise the failure is recorded as the first one.
C30_CooldownAfterFiveFailures ==
    AfterFiveFailures =>
        /\ SinceLastFailure < 60 * TICKS_PER_SECOND =>
               /\ unit.call.ret = [success |-> FALSE,
                                   wait |-> (60 * TICKS_PER_SECOND - SinceLastFailure)
                                                \div TICKS_PER_SECOND]
               /\ unit.call.authenticate_calls = 0
               /\ unit.session = unit.call.before
        /\ SinceLastFailure >= 60 * TICKS_PER_SECOND =>
               /\ unit.call.authenticate_calls = 1
               /\ (CorrectCredentials /\ unit.call.db_ok) =>
                      /\ unit.session.login_attempts = 0
                      /\ unit.session.auth_user_id \in {a.id : a \in Accounts}
                      /\ unit.secret # None =>
                             unit.call.ret = [success |-> TRUE, message |-> PyStr(Empty)]
               /\ ~(CorrectCredentials /\ unit.call.db_ok) =>
                      /\ unit.session.login_attempts = 1
                      /\ unit.session.last_login_attempt = unit.call.at
                      /\ unit.call.ret.success = FALSE
                      /\ "message" \in DOMAIN unit.call.ret

\* A login with an account's credentials refused half a second before the
\* cooldown ends.
C30_Witness ==
    /\ AfterFiveFailures
    /\ CorrectCredentials
    /\ unit.call.db_ok
    /\ SinceLastFailure = 60 * TICKS_PER_SECOND - 1
    /\ unit.call.ret.success = FALSE

====
